---- MODULE Spec2Model ----
(***************************************************************************)
(* Room / peer coordination of the Open Collaboration Server:              *)
(*   RoomManager            (room-manager.ts: closeRoom, prepareRoom,      *)
(*                           join, getRoomById, getRoomByPeerId,           *)
(*                           requestJoin)                                  *)
(*   CollaborationServer    (collaboration-server.ts: the connection       *)
(*                           handlers of startServer and connectChannel)   *)
(*   EncodingProvider       (getEncoding)                                  *)
(* MessageRelay, Channel, Peer, Room and CredentialsManager are not part   *)
(* of the sources at hand; they are modelled from their contracts.         *)
(*                                                                         *)
(* JavaScript runs one handler at a time: a handler is atomic up to its    *)
(* next await.  connectChannel suspends once, at `await verifyJwt`; join   *)
(* and closeRoom contain no await and run to completion.                   *)
(***************************************************************************)
EXTENDS Integers, Sequences, FiniteSets, TLC

\* ---------------------------------------------------------------- bounds
MaxConns == 3        \* transport connections accepted in one run
MaxRooms == 2        \* room ids handed out by prepareRoom
MaxReqs  == 1        \* requestJoin calls in one run

Conns   == 1..MaxConns      \* a connection and the Peer built on it share the id
RoomIds == 1..MaxRooms
ReqIds  == 1..MaxReqs
Users   == {"u1", "u2"}     \* the users known to the identity provider
Hosts   == {"u1"}           \* the users that ask for a room of their own

\* a token is the claim it carries plus the state of its signature
Token(room, user, host, sig) == [room |-> room, user |-> user, host |-> host, sig |-> sig]
NoJwt      == Token(0, "", FALSE, "absent")     \* header x-jwt absent
ForgedJwt  == Token(1, "u1", TRUE, "bad")       \* a room claim with a bad signature
LoginJwt   == Token(0, "u1", FALSE, "ok")       \* a signed token that is no RoomClaim
NoKey == "absent"
PublicKeys == {NoKey, "pk"}
NoEncoding == "unset"       \* header x-encoding absent
Encodings == {NoEncoding, "json", "binary"}

\* ------------------------------------------------------ CredentialsManager
\* generateJwt(claim): the decoded payload equals the claim
generateJwt(room, user, host) == Token(room, user, host, "ok")
\* isRoomClaim(obj): typeof obj.room === 'string' && isUser(obj.user)
isRoomClaim(t) == t.room \in RoomIds /\ t.user \in Users
\* verifyJwt(token, isRoomClaim): signature, then shape
verifyJwt(t) == t.sig = "ok" /\ isRoomClaim(t)

VARIABLES
    rooms,      \* RoomManager.rooms : room id -> Room          (Room = its host peer)
    peers,      \* RoomManager.peers : peer id -> Room
    objs,       \* the Room objects  : Room -> [id, guests]
    phase,      \* position of each connection in connectChannel
    jwt,        \* the x-jwt header of each connection inside connectChannel
    open,       \* the transport of each connection is open
    hooked,     \* peers whose onClose listener is armed
    deferred,   \* peers whose close listeners are scheduled, not yet run
    nextConn,   \* next connection to arrive
    nextRoom,   \* next id of secureId() for prepareRoom
    issued,     \* the RoomClaims signed so far
    req,        \* the requestJoin calls : request id -> [room, user, status]
    closed,     \* history: room ids that closeRoom removed from rooms
    trace,      \* history: the effects of the last handler, in order
    lastOp      \* history: the last handler, its arguments and its outcome

vars == <<rooms, peers, objs, phase, jwt, open, hooked, deferred, nextConn,
          nextRoom, issued, req, closed, trace, lastOp>>

\* ------------------------------------------------------- Map<K,V> helpers
Put(f, k, v) == [x \in (DOMAIN f) \cup {k} |-> IF x = k THEN v ELSE f[x]]
Del(f, k)    == [x \in (DOMAIN f) \ {k} |-> f[x]]
EmptyMap     == [x \in {} |-> 0]
Range(s)     == {s[i] : i \in DOMAIN s}

\* ------------------------------------------------------------ trace events
Ev(ev, method, from, to, ok, reg) ==
    [ev |-> ev, method |-> method, from |-> from, to |-> to, ok |-> ok, reg |-> reg]
\* a message handed to the channel of `to`; ok: the channel was open,
\* reg: `to` was a key of the peer registry at that moment
SendEv(S, kind, method, from, to) ==
    Ev(kind, method, from, to, S.open[to], to \in DOMAIN S.peers)
StepEv(ev, p) == Ev(ev, "", p, p, TRUE, TRUE)

\* --------------------------------------------------------------- Room type
\* Room.peers: the host followed by the guests
RoomPeers(S, room) == <<room>> \o S.objs[room].guests

\* ------------------------------------------------------------ MessageRelay
\* sendBroadcast(origin, message): to every member of origin's room except
\* origin; a recipient whose channel is gone is skipped over, not fatal.
sendBroadcast(S, origin, method) ==
    IF origin \notin DOMAIN S.peers THEN S
    ELSE LET rcpts == SelectSeq(RoomPeers(S, S.peers[origin]), LAMBDA p : p # origin)
         IN [S EXCEPT !.trace = @ \o
                [i \in 1..Len(rcpts) |-> SendEv(S, "broadcast", method, origin, rcpts[i])]]

\* sendNotification(target, message): fire-and-forget to one peer
sendNotification(S, target, method) ==
    [S EXCEPT !.trace = Append(@, SendEv(S, "notification", method, target, target))]

\* ------------------------------------------------- RoomManager.closeRoom
RECURSIVE closeRoom(_, _, _), closeRoomLoop(_, _, _), channelClose(_, _, _),
          fireClose(_, _, _), closeRoomLoopNoDelete(_, _, _)

\* faulty variant: the guest's listener also takes the guest out of the registries
fireCloseRemovesGuest(S, p, sync) ==
    LET S1 == [S EXCEPT !.trace = Append(@, StepEv("listener", p))]
    IN IF p \in DOMAIN S.objs
       THEN closeRoom(S1, S.objs[p].id, sync)
       ELSE LET S2 == sendBroadcast(S1, p, "Left")
            IN IF p \notin DOMAIN S2.peers THEN S2
               ELSE [S2 EXCEPT !.objs[S2.peers[p]].guests = SelectSeq(@, LAMBDA g : g # p),
                               !.peers = Del(@, p)]

\* the onClose listener that join registered for peer p
fireClose(S, p, sync) ==
    LET S1 == [S EXCEPT !.trace = Append(@, StepEv("listener", p))]
    IN IF p \in DOMAIN S.objs
       THEN closeRoom(S1, S.objs[p].id, sync)      \* host: () => this.closeRoom(room.id)
       ELSE sendBroadcast(S1, p, "Left")           \* guest: broadcast Room.Left

\* Channel.close(): idempotent; the listeners fire once, either inside the
\* call (sync[p]) or from a later event (deferred)
channelClose(S, p, sync) ==
    IF ~S.open[p] THEN S
    ELSE LET S1 == [S EXCEPT !.open[p] = FALSE,
                             !.hooked = @ \ {p},
                             !.trace = Append(@, StepEv("close", p))]
         IN IF p \notin S.hooked THEN S1
            ELSE IF sync[p] THEN fireClose(S1, p, sync)
            ELSE [S1 EXCEPT !.deferred = @ \cup {p}]

\* faulty variant: the loop only closes the channels
closeRoomLoopNoDelete(S, ps, sync) ==
    IF ps = <<>> THEN S
    ELSE closeRoomLoopNoDelete(channelClose(S, Head(ps), sync), Tail(ps), sync)

\* faulty variant: the loop forgets peer.channel.close()
closeRoomLoopNoClose(S, ps, sync) ==
    IF ps = <<>> THEN S
    ELSE LET p  == Head(ps)
             S1 == [S EXCEPT !.peers = Del(@, p),
                             !.trace = Append(@, StepEv("peers.delete", p))]
         IN closeRoomLoop(S1, Tail(ps), sync)

\* faulty variant: the loop closes the channel before it removes the peer
closeRoomLoopCloseFirst(S, ps, sync) ==
    IF ps = <<>> THEN S
    ELSE LET p  == Head(ps)
             S1 == channelClose(S, p, sync)
             S2 == [S1 EXCEPT !.peers = Del(@, p),
                              !.trace = Append(@, StepEv("peers.delete", p))]
         IN closeRoomLoop(S2, Tail(ps), sync)

\* for (const peer of room.peers) { this.peers.delete(peer.id); peer.channel.close(); }
closeRoomLoop(S, ps, sync) ==
    IF ps = <<>> THEN S
    ELSE LET p  == Head(ps)
             S1 == [S EXCEPT !.peers = Del(@, p),
                             !.trace = Append(@, StepEv("peers.delete", p))]
         IN closeRoomLoop(channelClose(S1, p, sync), Tail(ps), sync)

\* faulty variant: the peers are removed from the registry at the end, after
\* the loop has closed every channel
closeRoomDeleteAfterLoop(S, id, sync) ==
    IF id \notin DOMAIN S.rooms THEN S
    ELSE LET room == S.rooms[id]
             S1 == sendBroadcast(S, room, "Closed")
             ps == RoomPeers(S1, room)
             S2 == closeRoomLoopNoDelete(S1, ps, sync)
         IN [S2 EXCEPT !.peers = [x \in DOMAIN @ \ Range(ps) |-> @[x]],
                       !.rooms = Del(@, id),
                       !.closed = @ \cup {id},
                       !.trace = @ \o [i \in 1..Len(ps) |-> StepEv("peers.delete", ps[i])]
                                   \o <<StepEv("rooms.delete", room)>>]

\* faulty variant: 'room closed' goes out after the loop has closed the channels
closeRoomBroadcastLast(S, id, sync) ==
    IF id \notin DOMAIN S.rooms THEN S
    ELSE LET room == S.rooms[id]
             sent == sendBroadcast([S EXCEPT !.trace = <<>>], room, "Closed").trace
             S2 == closeRoomLoop(S, RoomPeers(S, room), sync)
         IN [S2 EXCEPT !.rooms = Del(@, id),
                       !.closed = @ \cup {id},
                       !.trace = @ \o sent \o <<StepEv("rooms.delete", room)>>]

\* faulty variant: the room is torn down without the 'room closed' broadcast
closeRoomNoBroadcast(S, id, sync) ==
    IF id \notin DOMAIN S.rooms THEN S
    ELSE LET room == S.rooms[id]
             S2 == closeRoomLoop(S, RoomPeers(S, room), sync)
         IN [S2 EXCEPT !.rooms = Del(@, id),
                       !.closed = @ \cup {id},
                       !.trace = Append(@, StepEv("rooms.delete", room))]

\* faulty variant: the loop runs over this.peers instead of room.peers
closeRoomAllPeers(S, id, sync) ==
    IF id \notin DOMAIN S.rooms THEN S
    ELSE LET room == S.rooms[id]
             S1 == sendBroadcast(S, room, "Closed")
             all == SelectSeq([i \in 1..MaxConns |-> i], LAMBDA p : p \in DOMAIN S1.peers)
             S2 == closeRoomLoop(S1, all, sync)
         IN [S2 EXCEPT !.rooms = Del(@, id),
                       !.closed = @ \cup {id},
                       !.trace = Append(@, StepEv("rooms.delete", room))]

\* faulty variant: an id that is not registered is looked up among the Room
\* objects created so far, and that room is torn down
closeRoomStaleObject(S, id, sync) ==
    LET known == id \in DOMAIN S.rooms
        stale == {h \in DOMAIN S.objs : S.objs[h].id = id}
    IN IF ~known /\ stale = {} THEN S
       ELSE LET room == IF known THEN S.rooms[id] ELSE CHOOSE h \in stale : TRUE
                S1 == sendBroadcast(S, room, "Closed")
                S2 == closeRoomLoop(S1, RoomPeers(S1, room), sync)
            IN [S2 EXCEPT !.rooms = Del(@, id),
                          !.closed = @ \cup {id},
                          !.trace = Append(@, StepEv("rooms.delete", room))]

\* faulty variant: a failed send of 'room closed' escapes closeRoom
closeRoomAbortOnSendFailure(S, id, sync) ==
    IF id \notin DOMAIN S.rooms THEN S
    ELSE LET room == S.rooms[id]
             S1 == sendBroadcast(S, room, "Closed")
             S2 == closeRoomLoop(S1, RoomPeers(S1, room), sync)
         IN IF \E i \in DOMAIN S1.trace : S1.trace[i].ev = "broadcast" /\ ~S1.trace[i].ok
            THEN S1
            ELSE [S2 EXCEPT !.rooms = Del(@, id),
                            !.closed = @ \cup {id},
                            !.trace = Append(@, StepEv("rooms.delete", room))]

closeRoom(S, id, sync) ==
    IF id \notin DOMAIN S.rooms THEN S
    ELSE LET room == S.rooms[id]
             S1 == sendBroadcast(S, room, "Closed")
             S2 == closeRoomLoop(S1, RoomPeers(S1, room), sync)
         IN [S2 EXCEPT !.rooms = Del(@, id),
                       !.closed = @ \cup {id},
                       !.trace = Append(@, StepEv("rooms.delete", room))]

\* ------------------------------------------------------ RoomManager.join
\* Channel.onClose(listener): a listener added after the transport closed
\* has no close left to fire on
onClose(S, p) == IF S.open[p] THEN [S EXCEPT !.hooked = @ \cup {p}] ELSE S

\* faulty variant: the host branch forgets this.peers.set(peer.id, room)
joinHostNotInPeers(S, p, host, roomId) ==
    IF host
    THEN LET S1 == [S EXCEPT !.objs  = Put(@, p, [id |-> roomId, guests |-> <<>>]),
                             !.rooms = Put(@, roomId, p),
                             !.trace = @ \o <<StepEv("rooms.set", p)>>]
         IN sendNotification(onClose(S1, p), p, "Info")
    ELSE IF roomId \notin DOMAIN S.rooms
    THEN [S EXCEPT !.err = "RoomNotFound"]
    ELSE LET room == S.rooms[roomId]
             S1 == [S EXCEPT !.peers = Put(@, p, room),
                             !.objs[room].guests = Append(@, p),
                             !.trace = @ \o <<StepEv("peers.set", p), StepEv("guests.push", p)>>]
             S2 == sendBroadcast(S1, p, "Joined")
         IN sendNotification(onClose(S2, p), p, "Info")

\* faulty variant: the guest is sent its Peer.Info before 'peer joined' goes out
joinInfoBeforeBroadcast(S, p, host, roomId) ==
    IF host
    THEN LET S1 == [S EXCEPT !.objs  = Put(@, p, [id |-> roomId, guests |-> <<>>]),
                             !.rooms = Put(@, roomId, p),
                             !.peers = Put(@, p, p),
                             !.trace = @ \o <<StepEv("rooms.set", p), StepEv("peers.set", p)>>]
         IN sendNotification(onClose(S1, p), p, "Info")
    ELSE IF roomId \notin DOMAIN S.rooms
    THEN [S EXCEPT !.err = "RoomNotFound"]
    ELSE LET room == S.rooms[roomId]
             S1 == [S EXCEPT !.peers = Put(@, p, room),
                             !.objs[room].guests = Append(@, p),
                             !.trace = @ \o <<StepEv("peers.set", p), StepEv("guests.push", p)>>]
             S2 == sendNotification(S1, p, "Info")
         IN onClose(sendBroadcast(S2, p, "Joined"), p)

\* faulty variant: 'peer joined' goes out before the guest is registered, with
\* the host as its origin
joinBroadcastBeforeRegister(S, p, host, roomId) ==
    IF host
    THEN LET S1 == [S EXCEPT !.objs  = Put(@, p, [id |-> roomId, guests |-> <<>>]),
                             !.rooms = Put(@, roomId, p),
                             !.peers = Put(@, p, p),
                             !.trace = @ \o <<StepEv("rooms.set", p), StepEv("peers.set", p)>>]
         IN sendNotification(onClose(S1, p), p, "Info")
    ELSE IF roomId \notin DOMAIN S.rooms
    THEN [S EXCEPT !.err = "RoomNotFound"]
    ELSE LET room == S.rooms[roomId]
             S1 == sendBroadcast(S, room, "Joined")
             S2 == [S1 EXCEPT !.peers = Put(@, p, room),
                              !.objs[room].guests = Append(@, p),
                              !.trace = @ \o <<StepEv("peers.set", p), StepEv("guests.push", p)>>]
         IN sendNotification(onClose(S2, p), p, "Info")

\* faulty variant: the guest is put at the front of the guest list
joinGuestUnshift(S, p, host, roomId) ==
    IF host
    THEN LET S1 == [S EXCEPT !.objs  = Put(@, p, [id |-> roomId, guests |-> <<>>]),
                             !.rooms = Put(@, roomId, p),
                             !.peers = Put(@, p, p),
                             !.trace = @ \o <<StepEv("rooms.set", p), StepEv("peers.set", p)>>]
         IN sendNotification(onClose(S1, p), p, "Info")
    ELSE IF roomId \notin DOMAIN S.rooms
    THEN [S EXCEPT !.err = "RoomNotFound"]
    ELSE LET room == S.rooms[roomId]
             S1 == [S EXCEPT !.peers = Put(@, p, room),
                             !.objs[room].guests = <<p>> \o @,
                             !.trace = @ \o <<StepEv("peers.set", p), StepEv("guests.push", p)>>]
             S2 == sendBroadcast(S1, p, "Joined")
         IN sendNotification(onClose(S2, p), p, "Info")

\* faulty variant: the guest is pushed to the guest list twice
joinGuestPushedTwice(S, p, host, roomId) ==
    IF host
    THEN LET S1 == [S EXCEPT !.objs  = Put(@, p, [id |-> roomId, guests |-> <<>>]),
                             !.rooms = Put(@, roomId, p),
                             !.peers = Put(@, p, p),
                             !.trace = @ \o <<StepEv("rooms.set", p), StepEv("peers.set", p)>>]
         IN sendNotification(onClose(S1, p), p, "Info")
    ELSE IF roomId \notin DOMAIN S.rooms
    THEN [S EXCEPT !.err = "RoomNotFound"]
    ELSE LET room == S.rooms[roomId]
             S1 == [S EXCEPT !.peers = Put(@, p, room),
                             !.objs[room].guests = @ \o <<p, p>>,
                             !.trace = @ \o <<StepEv("peers.set", p), StepEv("guests.push", p)>>]
             S2 == sendBroadcast(S1, p, "Joined")
         IN sendNotification(onClose(S2, p), p, "Info")

\* faulty variant: the guest branch forgets this.peers.set(peer.id, room)
joinGuestNotInPeers(S, p, host, roomId) ==
    IF host
    THEN LET S1 == [S EXCEPT !.objs  = Put(@, p, [id |-> roomId, guests |-> <<>>]),
                             !.rooms = Put(@, roomId, p),
                             !.peers = Put(@, p, p),
                             !.trace = @ \o <<StepEv("rooms.set", p), StepEv("peers.set", p)>>]
         IN sendNotification(onClose(S1, p), p, "Info")
    ELSE IF roomId \notin DOMAIN S.rooms
    THEN [S EXCEPT !.err = "RoomNotFound"]
    ELSE LET room == S.rooms[roomId]
             S1 == [S EXCEPT !.objs[room].guests = Append(@, p),
                             !.trace = @ \o <<StepEv("guests.push", p)>>]
             S2 == sendBroadcast(S1, p, "Joined")
         IN sendNotification(onClose(S2, p), p, "Info")

\* faulty variant: the host branch files the room under the id of its user
joinKeyedByUser(S, p, host, roomId) ==
    IF host
    THEN LET S1 == [S EXCEPT !.objs  = Put(@, p, [id |-> roomId, guests |-> <<>>]),
                             !.rooms = Put(@, 1, p),
                             !.peers = Put(@, p, p),
                             !.trace = @ \o <<StepEv("rooms.set", p), StepEv("peers.set", p)>>]
         IN sendNotification(onClose(S1, p), p, "Info")
    ELSE IF roomId \notin DOMAIN S.rooms
    THEN [S EXCEPT !.err = "RoomNotFound"]
    ELSE LET room == S.rooms[roomId]
             S1 == [S EXCEPT !.peers = Put(@, p, room),
                             !.objs[room].guests = Append(@, p),
                             !.trace = @ \o <<StepEv("peers.set", p), StepEv("guests.push", p)>>]
             S2 == sendBroadcast(S1, p, "Joined")
         IN sendNotification(onClose(S2, p), p, "Info")

\* faulty variant: the guest branch registers the peer before it looks the room up
joinRegisterBeforeLookup(S, p, host, roomId) ==
    IF host
    THEN LET S1 == [S EXCEPT !.objs  = Put(@, p, [id |-> roomId, guests |-> <<>>]),
                             !.rooms = Put(@, roomId, p),
                             !.peers = Put(@, p, p),
                             !.trace = @ \o <<StepEv("rooms.set", p), StepEv("peers.set", p)>>]
         IN sendNotification(onClose(S1, p), p, "Info")
    ELSE IF roomId \notin DOMAIN S.rooms
    THEN [S EXCEPT !.err = "RoomNotFound",
                   !.peers = Put(@, p, 0),
                   !.trace = Append(@, StepEv("peers.set", p))]
    ELSE LET room == S.rooms[roomId]
             S1 == [S EXCEPT !.peers = Put(@, p, room),
                             !.objs[room].guests = Append(@, p),
                             !.trace = @ \o <<StepEv("peers.set", p), StepEv("guests.push", p)>>]
             S2 == sendBroadcast(S1, p, "Joined")
         IN sendNotification(onClose(S2, p), p, "Info")

join(S, p, host, roomId) ==
    IF host
    THEN LET S1 == [S EXCEPT !.objs  = Put(@, p, [id |-> roomId, guests |-> <<>>]),
                             !.rooms = Put(@, roomId, p),
                             !.peers = Put(@, p, p),
                             !.trace = @ \o <<StepEv("rooms.set", p), StepEv("peers.set", p)>>]
         IN sendNotification(onClose(S1, p), p, "Info")
    ELSE IF roomId \notin DOMAIN S.rooms
    THEN [S EXCEPT !.err = "RoomNotFound"]
    ELSE LET room == S.rooms[roomId]
             S1 == [S EXCEPT !.peers = Put(@, p, room),
                             !.objs[room].guests = Append(@, p),
                             !.trace = @ \o <<StepEv("peers.set", p), StepEv("guests.push", p)>>]
             S2 == sendBroadcast(S1, p, "Joined")
         IN sendNotification(onClose(S2, p), p, "Info")

getRoomById(id)     == IF id \in DOMAIN rooms THEN rooms[id] ELSE 0
getRoomByPeerId(id) == IF id \in DOMAIN peers THEN peers[id] ELSE 0

\* ---------------------------------------------------- state <-> record
Cur == [rooms |-> rooms, peers |-> peers, objs |-> objs, open |-> open,
        hooked |-> hooked, deferred |-> deferred, closed |-> closed,
        trace |-> <<>>, err |-> ""]

Commit(S) ==
    /\ rooms' = S.rooms
    /\ peers' = S.peers
    /\ objs' = S.objs
    /\ open' = S.open
    /\ hooked' = S.hooked
    /\ deferred' = S.deferred
    /\ closed' = S.closed
    /\ trace' = S.trace

Op(op, conn, id, result) ==
    [op |-> op, conn |-> conn, id |-> id, result |-> result,
     closeId |-> 0, members |-> {}, reply |-> "", token |-> NoJwt, case |-> ""]

\* the room closeRoom(id) finds, as the set of its members
MembersOf(id) == IF id \in DOMAIN rooms THEN Range(RoomPeers(Cur, rooms[id])) ELSE {}

Init ==
    /\ rooms = EmptyMap
    /\ peers = EmptyMap
    /\ objs = EmptyMap
    /\ phase = [c \in Conns |-> "none"]
    /\ jwt = [c \in Conns |-> NoJwt]
    /\ open = [c \in Conns |-> FALSE]
    /\ hooked = {}
    /\ deferred = {}
    /\ nextConn = 1
    /\ nextRoom = 1
    /\ issued = {}
    /\ req = EmptyMap
    /\ closed = {}
    /\ trace = <<>>
    /\ lastOp = Op("init", 0, 0, "")

\* ------------------------------------------------- RoomManager.prepareRoom
prepareRoom(id, user) == generateJwt(id, user, TRUE)

\* faulty variant: the room is entered in the registry when its claim is issued
PrepareRoomRegisters(u) ==
    /\ nextRoom <= MaxRooms
    /\ issued' = issued \cup {prepareRoom(nextRoom, u)}
    /\ nextRoom' = nextRoom + 1
    /\ rooms' = Put(rooms, nextRoom, 0)
    /\ trace' = <<>>
    /\ lastOp' = Op("prepareRoom", 0, nextRoom, "ok")
    /\ UNCHANGED <<peers, objs, phase, jwt, open, hooked, deferred,
                   nextConn, req, closed>>

\* POST /api/session/create: prepareRoom with a fresh secureId()
PrepareRoom(u) ==
    /\ nextRoom <= MaxRooms
    /\ issued' = issued \cup {prepareRoom(nextRoom, u)}
    /\ nextRoom' = nextRoom + 1
    /\ trace' = <<>>
    /\ lastOp' = Op("prepareRoom", 0, nextRoom, "ok")
    /\ UNCHANGED <<rooms, peers, objs, phase, jwt, open, hooked, deferred,
                   nextConn, req, closed>>

\* --------------------------------------------- EncodingProvider.getEncoding
\* faulty variant: an unknown name falls back to the json encoding
getEncodingFallback(encoding) == "json"

getEncoding(encoding) == IF encoding = "json" THEN "json" ELSE "Unsupported"

\* ------------------------------------------ CollaborationServer, connections
\* the catch block of the 'connection' handlers: socket.close() / disconnect(true)
\* faulty variant: the catch block logs and leaves the socket as it is
onConnectionErrorNoClose(S, c) == S

onConnectionError(S, c) == [S EXCEPT !.open[c] = FALSE]

\* the headers of a connection, as the claims speak of them
ConnCase(token, publicKey) ==
    IF token.sig = "absent" THEN "nojwt"
    ELSE IF publicKey = NoKey /\ verifyJwt(token) THEN "nokey"
    ELSE ""

\* the same for a connection that may name an encoding
EncCase(token, encoding) ==
    IF token.sig = "absent" THEN "nojwt"
    ELSE IF encoding = NoEncoding THEN "noenc"
    ELSE IF encoding # "json" THEN "badenc"
    ELSE ""

\* faulty variant: the encoding is resolved before the token is looked at
connectChannelStartEncodingFirst(token, encoding) ==
    IF getEncoding(IF encoding = NoEncoding THEN "json" ELSE encoding) = "Unsupported"
    THEN "UnsupportedEncoding"
    ELSE IF token.sig = "absent" THEN "UnauthenticatedConnection"
    ELSE "await"

\* connectChannel up to `await this.credentials.verifyJwt(...)`
connectChannelStart(token, encoding) ==
    IF token.sig = "absent" THEN "UnauthenticatedConnection"
    ELSE IF getEncoding(IF encoding = NoEncoding THEN "json" ELSE encoding) = "Unsupported"
    THEN "UnsupportedEncoding"
    ELSE "await"

\* connectChannel after the await: peerFactory, then RoomManager.join
connectChannelResume(S, c, token) ==
    IF ~verifyJwt(token) THEN [S EXCEPT !.err = "InvalidClaim"]
    ELSE join(S, c, token.host, token.room)

\* a transport connection arrives: wsServer.on('connection') / io.on('connection')
Connect(token, encoding) ==
    LET c == nextConn
        r == connectChannelStart(token, encoding)
        S0 == [Cur EXCEPT !.open[c] = TRUE]
        S == IF r = "await" THEN S0 ELSE onConnectionError(S0, c)
    IN /\ nextConn <= MaxConns
       /\ nextConn' = nextConn + 1
       /\ phase' = [phase EXCEPT ![c] = IF r = "await" THEN "verifying" ELSE "failed"]
       /\ jwt' = [jwt EXCEPT ![c] = IF r = "await" THEN token ELSE NoJwt]
       /\ Commit(S)
       /\ lastOp' = [Op("connect", c, 0, r) EXCEPT !.case = EncCase(token, encoding)]
       /\ UNCHANGED <<nextRoom, issued, req>>

\* connectChannel of the server that reads x-oct-jwt and x-oct-public-key, up
\* to `await this.credentials.verifyJwt(...)`
connectChannelKeyedStart(token, publicKey) ==
    IF token.sig = "absent" THEN "UnauthenticatedConnection"
    ELSE IF publicKey = NoKey THEN "NoEncryptionKey"
    ELSE "await"

\* a transport connection arrives at that server; after the await its
\* connectChannel goes on as the other one does (peerFactory, then join)
ConnectKeyed(token, publicKey) ==
    LET c == nextConn
        r == connectChannelKeyedStart(token, publicKey)
        S0 == [Cur EXCEPT !.open[c] = TRUE]
        S == IF r = "await" THEN S0 ELSE onConnectionError(S0, c)
    IN /\ nextConn <= MaxConns
       /\ nextConn' = nextConn + 1
       /\ phase' = [phase EXCEPT ![c] = IF r = "await" THEN "verifying" ELSE "failed"]
       /\ jwt' = [jwt EXCEPT ![c] = IF r = "await" THEN token ELSE NoJwt]
       /\ Commit(S)
       /\ lastOp' = [Op("connect", c, 0, r) EXCEPT !.case = ConnCase(token, publicKey)]
       /\ UNCHANGED <<nextRoom, issued, req>>

\* verifyJwt settles and connectChannel runs to its end
Resume(c) ==
    LET S0 == connectChannelResume(Cur, c, jwt[c])
        S  == IF S0.err # "" THEN onConnectionError(S0, c) ELSE S0
    IN /\ phase[c] = "verifying"
       /\ phase' = [phase EXCEPT ![c] = IF S0.err # "" THEN "failed" ELSE "joined"]
       /\ Commit(S)
       /\ jwt' = [jwt EXCEPT ![c] = NoJwt]        \* the headers are dropped with the call
       /\ lastOp' = Op("join", c, jwt[c].room, IF S0.err # "" THEN S0.err ELSE "ok")
       /\ UNCHANGED <<nextConn, nextRoom, issued, req>>

\* the remote end closes the transport: the close event runs the listeners
TransportClose(c, sync) ==
    LET host == c \in hooked /\ c \in DOMAIN objs
        id   == IF host THEN objs[c].id ELSE 0
    IN /\ phase[c] \in {"verifying", "joined"}
       /\ open[c]
       /\ Commit(channelClose(Cur, c, [sync EXCEPT ![c] = TRUE]))
       /\ lastOp' = [Op("channelClose", c, id, "ok") EXCEPT
                        !.closeId = id, !.members = MembersOf(id)]
       /\ UNCHANGED <<phase, jwt, nextConn, nextRoom, issued, req>>

\* the close listeners of a channel that closeRoom closed run from a later event
RunDeferred(c, sync) ==
    LET host == c \in DOMAIN objs
        id   == IF host THEN objs[c].id ELSE 0
    IN /\ c \in deferred
       /\ Commit(fireClose([Cur EXCEPT !.deferred = @ \ {c}], c, sync))
       /\ lastOp' = [Op("closeListener", c, id, "ok") EXCEPT
                        !.closeId = id, !.members = MembersOf(id)]
       /\ UNCHANGED <<phase, jwt, nextConn, nextRoom, issued, req>>

\* ------------------------------------------------ RoomManager.requestJoin
\* the try block: what the awaited sendRequest gives, and what is thrown
requestJoinTry(reply) ==
    IF reply = "truthy" THEN [thrown |-> FALSE, value |-> "resolved"]
    ELSE IF reply = "falsy" THEN [thrown |-> TRUE, value |-> "JoinRejected"]
    ELSE [thrown |-> TRUE, value |-> "RelayFailure"]

\* faulty variant: the catch block passes on what was thrown
requestJoinRethrows(reply) == requestJoinTry(reply).value

\* catch { throw ... 'Join request has timed out' }
requestJoin(reply) ==
    LET t == requestJoinTry(reply)
    IN IF t.thrown THEN "JoinTimeout" ELSE t.value

\* faulty variant: the guest claim is issued with the host flag
requestJoinClaimAsHost(roomId, u) == generateJwt(roomId, u, TRUE)

\* const claim = { room: room.id, user: {...} }; generateJwt(claim)
requestJoinClaim(roomId, u) == generateJwt(roomId, u, FALSE)

\* faulty variant: the continuation runs for every event that reaches the request
awaitSendRequestAgain(status, reply) == requestJoin(reply)

\* await sendRequest(...): the awaited promise settles once, with the first of
\* response and timer; what arrives later finds the call completed
awaitSendRequest(status, reply) ==
    IF status = "pending" THEN requestJoin(reply) ELSE status

\* POST /api/session/join/:room up to the await of sendRequest
RequestJoin(id, u) ==
    LET r == Cardinality(DOMAIN req) + 1
    IN /\ r <= MaxReqs
       /\ getRoomById(id) # 0            \* the route answers 'Failed to join room' otherwise
       /\ req' = Put(req, r, [room |-> rooms[id], user |-> u, status |-> "pending",
                              seen |-> {}])
       /\ trace' = <<SendEv(Cur, "request", "Join", 0, rooms[id])>>
       /\ lastOp' = Op("requestJoin", 0, id, "pending")
       /\ UNCHANGED <<rooms, peers, objs, phase, jwt, open, hooked, deferred,
                      nextConn, nextRoom, issued, closed>>

\* the host's response or the relay's timer reaches request r; each arrives at
\* most once, in either order
EventOf(reply) == IF reply = "timeout" THEN "timer" ELSE "reply"

\* faulty variant: a request that times out closes the room of the silent host
SettleDropsRoom(r, reply) ==
    LET out == awaitSendRequest(req[r].status, reply)
        room == req[r].room
    IN /\ r \in DOMAIN req
       /\ EventOf(reply) \notin req[r].seen
       /\ reply \in {"truthy", "falsy"} => open[room]
       /\ req' = [req EXCEPT ![r].status = out, ![r].seen = @ \cup {EventOf(reply)}]
       /\ issued' = issued
       /\ rooms' = IF out = "JoinTimeout" THEN Del(rooms, objs[room].id) ELSE rooms
       /\ trace' = <<>>
       /\ lastOp' = [Op("requestJoinDone", 0, r, out) EXCEPT !.reply = reply]
       /\ UNCHANGED <<peers, objs, phase, jwt, open, hooked, deferred,
                      nextConn, nextRoom, closed>>

\* sendRequest settles (the host answered, or the relay gave up) and requestJoin
\* runs to its end; an event for a call that already ended changes nothing
Settle(r, reply) ==
    LET was == req[r].status
        out == awaitSendRequest(was, reply)
        room == req[r].room
        acts == out # was
        token == IF acts /\ out = "resolved"
                 THEN requestJoinClaim(objs[room].id, req[r].user) ELSE NoJwt
    IN /\ r \in DOMAIN req
       /\ EventOf(reply) \notin req[r].seen
       /\ reply \in {"truthy", "falsy"} => open[room]
       /\ req' = [req EXCEPT ![r].status = out, ![r].seen = @ \cup {EventOf(reply)}]
       /\ issued' = IF token # NoJwt THEN issued \cup {token} ELSE issued
       /\ trace' = <<>>
       /\ lastOp' = [Op(IF was = "pending" THEN "requestJoinDone" ELSE "lateEvent",
                        0, r, out)
                        EXCEPT !.reply = reply, !.token = token]
       /\ UNCHANGED <<rooms, peers, objs, phase, jwt, open, hooked, deferred,
                      nextConn, nextRoom, closed>>

\* which of the armed channels run their close listeners inside close()
Syncs == {f \in [Conns -> BOOLEAN] : \A c \in Conns : f[c] => (c \in hooked /\ open[c])}

Next ==
    \/ \E u \in Hosts : PrepareRoom(u)
    \/ \E t \in issued \cup {NoJwt, ForgedJwt, LoginJwt}, e \in Encodings : Connect(t, e)
    \/ \E t \in issued \cup {NoJwt, ForgedJwt, LoginJwt}, k \in PublicKeys : ConnectKeyed(t, k)
    \/ \E c \in Conns : Resume(c)
    \/ \E c \in Conns, sync \in Syncs : TransportClose(c, sync)
    \/ \E c \in Conns, sync \in Syncs : RunDeferred(c, sync)
    \/ \E id \in RoomIds, u \in Users : RequestJoin(id, u)
    \/ \E r \in ReqIds, reply \in {"truthy", "falsy", "timeout"} : Settle(r, reply)

Spec == Init /\ [][Next]_vars

\* the timer the relay arms for a request fires unless the call ended before
FairSpec == Spec /\ WF_vars(\E r \in ReqIds : Settle(r, "timeout"))

\* ======================================================================
\* Properties
\* ======================================================================
GuestsOf(room) == Range(objs[room].guests)
Broadcasts == {i \in DOMAIN trace : trace[i].ev = "broadcast"}
\* the last handler ran closeRoom(id) and found a room under id
TearDown == lastOp.closeId # 0 /\ lastOp.members # {}
TornDown ==
    /\ getRoomById(lastOp.closeId) = 0
    /\ \A m \in lastOp.members : getRoomByPeerId(m) = 0 /\ ~open[m]

\* C1: after closeRoom(id) found a room, rooms[id] is absent, no member of
\* that room (host or guest) is a key of peers, and every member's channel
\* is closed.
C1_CloseRoomRemovesAll == TearDown => TornDown
\* a teardown of a room with at least one guest
C1_Witness == TearDown /\ Cardinality(lastOp.members) >= 2

\* C2: the host of every registered room is a key of peers and maps to
\* that room.
C2_HostRegistered ==
    \A id \in DOMAIN rooms : getRoomByPeerId(rooms[id]) = rooms[id]
\* a host has just joined, another peer is registered too
C2_Witness ==
    /\ lastOp.op = "join" /\ lastOp.result = "ok"
    /\ lastOp.conn \in DOMAIN objs
    /\ rooms[lastOp.id] = lastOp.conn
    /\ Cardinality(DOMAIN peers) >= 2

\* C3: a falsy answer of the host makes requestJoin fail with JoinRejected,
\* not with JoinTimeout.
C3_RejectionIsNotTimeout ==
    (lastOp.op = "requestJoinDone" /\ lastOp.reply = "falsy")
        => lastOp.result = "JoinRejected"

\* C4: join of a non-host peer with a room id that is not registered fails
\* with RoomNotFound, changes neither registry nor any room, and sends
\* nothing.
JoinStep(c) == phase[c] = "verifying" /\ phase'[c] # "verifying"
C4_JoinUnknownRoom ==
    [][\A c \in Conns :
        (JoinStep(c) /\ verifyJwt(jwt[c]) /\ ~jwt[c].host /\ getRoomById(jwt[c].room) = 0)
            => /\ lastOp'.result = "RoomNotFound"
               /\ rooms' = rooms /\ peers' = peers /\ objs' = objs
               /\ trace' = <<>>]_vars
\* a guest join has failed while other peers are registered
C4_Witness ==
    /\ lastOp.op = "join" /\ lastOp.result = "RoomNotFound"
    /\ DOMAIN peers # {}

\* C5: when the channel of a room's host closes, the room id is no longer
\* registered, no guest of that room is a key of peers, and every guest's
\* channel is closed.
C5_HostCloseTearsDown ==
    (lastOp.op = "channelClose" /\ lastOp.conn \in DOMAIN objs)
        => /\ getRoomById(objs[lastOp.conn].id) = 0
           /\ \A g \in GuestsOf(lastOp.conn) : getRoomByPeerId(g) = 0 /\ ~open[g]

\* C6: a room id that closeRoom has removed is never registered again.
C6_ClosedIsTerminal == \A id \in closed : getRoomById(id) = 0

\* C7: the host of every registered room is connected.
C7_HostConnected == \A id \in DOMAIN rooms : open[rooms[id]]

\* C8: a handler that tears a room down hands no broadcast to a peer that
\* is no longer a key of peers.
C8_NoBroadcastToRemoved == TearDown => \A i \in Broadcasts : trace[i].reg
\* a teardown in which a guest's close listener ran after the guest was removed
C8_Witness ==
    /\ TearDown
    /\ Broadcasts # {}
    /\ \E i, j \in DOMAIN trace :
        /\ i < j
        /\ trace[i].ev = "peers.delete"
        /\ trace[j].ev = "listener" /\ trace[j].to = trace[i].to
        /\ trace[j].to \notin DOMAIN objs

\* C9: a connection whose setup failed has its transport closed and its
\* peer is in no registry and in no guest list.
C9_FailedSetupLeavesNothing ==
    \A c \in Conns : phase[c] = "failed" =>
        /\ ~open[c]
        /\ c \notin DOMAIN peers
        /\ c \notin DOMAIN objs
        /\ \A id \in DOMAIN rooms : rooms[id] # c
        /\ \A room \in DOMAIN objs : c \notin GuestsOf(room)
\* the join of a verified guest has failed
C9_Witness ==
    /\ lastOp.op = "join" /\ lastOp.result = "RoomNotFound"
    /\ phase[lastOp.conn] = "failed"
    /\ \E c \in Conns : c # lastOp.conn /\ phase[c] = "failed"

\* C10: a teardown in which 'room closed' could not be handed to a member
\* whose channel is gone still completes.
NotifyFailed == \E i \in Broadcasts : trace[i].method = "Closed" /\ ~trace[i].ok
C10_TeardownSurvivesSendFailure == (TearDown /\ NotifyFailed) => TornDown
C10_Witness == TearDown /\ NotifyFailed

\* C11: every member (host or guest) of a registered room is a key of peers
\* and maps to that room.
C11_RegistriesConsistent ==
    \A id \in DOMAIN rooms :
        \A m \in Range(RoomPeers(Cur, rooms[id])) : getRoomByPeerId(m) = rooms[id]
\* a registered room with two guests
C11_Witness ==
    \E id \in DOMAIN rooms : Len(objs[rooms[id]].guests) >= 2

\* C12: when the host's truthy response reaches a pending request, requestJoin
\* resolves and the token it returns is a verifiable claim for the id of the
\* requested room and the requesting user, without the host flag.
Answered(r) ==
    /\ lastOp.op = "requestJoinDone" /\ lastOp.id = r /\ lastOp.reply = "truthy"
C12_TruthyReplyIssuesGuestClaim ==
    \A r \in DOMAIN req : Answered(r) =>
        /\ lastOp.result = "resolved" /\ req[r].status = "resolved"
        /\ verifyJwt(lastOp.token)
        /\ lastOp.token.room = objs[req[r].room].id
        /\ lastOp.token.user = req[r].user
        /\ ~lastOp.token.host
        /\ lastOp.token \in issued
\* a request by a user other than the host's was answered truthily
C12_Witness ==
    \E r \in DOMAIN req : Answered(r) /\ req[r].user = "u2" /\ lastOp.token.user = "u2"


\* C13: every requestJoin call completes: a pending request is eventually
\* resolved or failed with JoinTimeout, and the timer or a relay failure ends
\* it with JoinTimeout.
Pending(r) == r \in DOMAIN req /\ req[r].status = "pending"
Completed(r) == r \in DOMAIN req /\ req[r].status \in {"resolved", "JoinTimeout"}
C13_RequestJoinCompletes ==
    /\ \A r \in ReqIds : Pending(r) ~> Completed(r)
    /\ [](lastOp.op = "requestJoinDone" /\ lastOp.reply = "timeout"
            => lastOp.result = "JoinTimeout")
\* a request whose host stayed silent ended with JoinTimeout
C13_Witness ==
    /\ lastOp.op = "requestJoinDone" /\ lastOp.reply = "timeout"
    /\ req[lastOp.id].status = "JoinTimeout" /\ req[lastOp.id].seen = {"timer"}


\* C14: a request is settled once: after it has ended, neither a late
\* response nor a late timer changes its outcome or issues a claim.
C14_SettledOnce ==
    [][\A r \in DOMAIN req : req[r].status # "pending" =>
          /\ req'[r].status = req[r].status
          /\ (lastOp'.op = "lateEvent" /\ lastOp'.id = r) =>
                 (issued' = issued /\ lastOp'.token = NoJwt)]_vars
\* the host's acceptance arrived after the request had timed out
C14_Witness ==
    /\ lastOp.op = "lateEvent" /\ lastOp.reply = "truthy"
    /\ req[lastOp.id].status = "JoinTimeout" /\ req[lastOp.id].seen = {"timer", "reply"}


\* C15: no step of requestJoin (sending the request, its completion with
\* any outcome, an event arriving after it) changes the room registry, the
\* peer registry or a guest list.
RequestJoinStep == req' # req
C15_RequestJoinFrame ==
    [][RequestJoinStep => (rooms' = rooms /\ peers' = peers /\ objs' = objs)]_vars
\* a request for a registered room without guests was granted; the room still
\* has no guests and the requester is in neither registry
C15_Witness ==
    /\ lastOp.op = "requestJoinDone" /\ lastOp.result = "resolved"
    /\ \E id \in DOMAIN rooms :
          /\ rooms[id] = req[lastOp.id].room
          /\ objs[rooms[id]].guests = <<>>
          /\ DOMAIN peers = {rooms[id]}


\* C16: closeRoom(id) for an id that is not in the room registry (never
\* registered, or already closed) changes neither registry, closes no
\* channel and sends no message.
\* the step ran closeRoom(id) from a host's close listener and id was unknown
CloseUnknown == lastOp'.closeId # 0 /\ lastOp'.members = {}
C16_CloseRoomIdempotent ==
    [][CloseUnknown =>
          /\ rooms' = rooms /\ peers' = peers /\ objs' = objs
          /\ \A c \in Conns \ {lastOp'.conn} : open'[c] = open[c]
          /\ \A i \in DOMAIN trace' :
                \/ trace'[i].ev = "listener"
                \/ trace'[i].ev = "close" /\ trace'[i].to = lastOp'.conn]_vars
\* a host's listener ran closeRoom for the id of a room that was closed before
C16_Witness ==
    /\ lastOp.closeId # 0 /\ lastOp.members = {}
    /\ lastOp.closeId \in closed
    /\ lastOp.conn \in DOMAIN objs /\ objs[lastOp.conn].guests # <<>>


\* C17: a connection that presents a valid claim and no encryption public
\* key is admitted: connectChannel goes on to verify the claim.
C17_KeylessConnectionAdmitted ==
    (lastOp.op = "connect" /\ lastOp.case = "nokey") => lastOp.result = "await"

\* C18: a connection without a claim token fails with
\* UnauthenticatedConnection before verification, peer construction or join:
\* the handler ends with the connection failed and closed, no registry
\* changed and nothing sent.
C18_NoTokenFailsFast ==
    [][(lastOp'.op = "connect" /\ lastOp'.case = "nojwt") =>
          /\ lastOp'.result = "UnauthenticatedConnection"
          /\ phase'[lastOp'.conn] = "failed" /\ ~open'[lastOp'.conn]
          /\ rooms' = rooms /\ peers' = peers /\ objs' = objs
          /\ trace' = <<>>]_vars
\* a connection without a token was refused while a room with a guest is registered
C18_Witness ==
    /\ lastOp.op = "connect" /\ lastOp.case = "nojwt"
    /\ lastOp.result = "UnauthenticatedConnection"
    /\ \E id \in DOMAIN rooms : objs[rooms[id]].guests # <<>>


\* C19: host joins with the claims of two prepareRoom calls do not collide:
\* prepareRoom never issues an id it issued before, and a host join enters
\* its room under the id of its claim and leaves every other entry of the
\* room registry as it was.
HostJoinStep(c) == JoinStep(c) /\ lastOp'.result = "ok" /\ jwt[c].host
C19_HostJoinsDoNotCollide ==
    [][/\ lastOp'.op = "prepareRoom" => \A t \in issued : t.room # lastOp'.id
       /\ \A c \in Conns : HostJoinStep(c) =>
             /\ jwt[c].room \in DOMAIN rooms' /\ rooms'[jwt[c].room] = c
             /\ \A y \in DOMAIN rooms \ {jwt[c].room} :
                    y \in DOMAIN rooms' /\ rooms'[y] = rooms[y]]_vars
\* the second host has joined: two rooms with different hosts are registered
C19_Witness ==
    /\ lastOp.op = "join" /\ lastOp.result = "ok" /\ lastOp.conn \in DOMAIN objs
    /\ \E x, y \in DOMAIN rooms :
          x # y /\ rooms[x] # rooms[y] /\ rooms[y] = lastOp.conn
          /\ objs[rooms[x]].id = x /\ objs[rooms[y]].id = y

\* C20: prepareRoom only issues a claim: its step leaves rooms, peers and
\* guest lists unchanged and the id it returns is not in the room registry;
\* an id enters the room registry only by a host join with a claim for it.
C20_PrepareRoomFrame ==
    [][/\ lastOp'.op = "prepareRoom" =>
             /\ rooms' = rooms /\ peers' = peers /\ objs' = objs
             /\ lastOp'.id \notin DOMAIN rooms'
             /\ \E t \in issued' \ issued : t.room = lastOp'.id /\ t.host
       /\ \A id \in DOMAIN rooms' \ DOMAIN rooms :
             \E c \in Conns : HostJoinStep(c) /\ jwt[c].room = id /\ rooms'[id] = c]_vars
\* a claim was issued for a second room and, after the host of the first has
\* joined, the second id is still absent from the registry
C20_Witness ==
    /\ lastOp.op = "join" /\ lastOp.result = "ok"
    /\ \E t \in issued :
          /\ t.host /\ t.room \notin DOMAIN rooms /\ t.room \notin closed
          /\ t.room # lastOp.id /\ lastOp.id \in DOMAIN rooms


\* C21: when the channel of a registered guest is closed by its remote end,
\* 'peer left' is broadcast to every other member of the guest's room, and
\* the room registry, the guest lists and the peer registry (the guest's
\* entry included) stay as they were.
GuestCloses(c) ==
    /\ lastOp'.op = "channelClose" /\ lastOp'.conn = c
    /\ c \in DOMAIN peers /\ c \notin DOMAIN objs
LeftRecipients == {trace'[i].to : i \in {j \in DOMAIN trace' :
                      trace'[j].ev = "broadcast" /\ trace'[j].method = "Left"}}
C21_GuestCloseKeepsGuest ==
    [][\A c \in Conns : GuestCloses(c) =>
          /\ LeftRecipients = Range(RoomPeers(Cur, peers[c])) \ {c}
          /\ rooms' = rooms /\ objs' = objs /\ peers' = peers]_vars
\* the second guest of a registered room has disconnected: host and first
\* guest were sent 'peer left', and the guest is still in the room
C21_Witness ==
    /\ lastOp.op = "channelClose" /\ ~open[lastOp.conn]
    /\ \E id \in DOMAIN rooms :
          /\ Len(objs[rooms[id]].guests) = 2
          /\ lastOp.conn \in GuestsOf(rooms[id])
          /\ getRoomByPeerId(lastOp.conn) = rooms[id]
          /\ {trace[i].to : i \in Broadcasts} = Range(RoomPeers(Cur, rooms[id])) \ {lastOp.conn}


\* C22: a host join makes a room with an empty guest list that the host's id
\* maps to; every successful guest join appends the joining guest at the end
\* of the guest list of the room registered under its id and maps the guest's
\* id to that room; no other step changes a guest list.  So the guest list
\* is the sequence of the guests in the order of their joins.
GuestJoinStep(c) == JoinStep(c) /\ lastOp'.result = "ok" /\ ~jwt[c].host
C22_GuestsInJoinOrder ==
    [][/\ \A c \in Conns : HostJoinStep(c) =>
             /\ jwt[c].room \in DOMAIN rooms' /\ rooms'[jwt[c].room] = c
             /\ objs'[c] = [id |-> jwt[c].room, guests |-> <<>>]
             /\ c \in DOMAIN peers' /\ peers'[c] = c
       /\ \A c \in Conns : GuestJoinStep(c) =>
             LET room == getRoomById(jwt[c].room)
             IN /\ room # 0 /\ rooms' = rooms
                /\ objs'[room].guests = Append(objs[room].guests, c)
                /\ \A m \in Range(RoomPeers(Cur, room)) \cup {c} :
                       m \in DOMAIN peers' /\ peers'[m] = room
       /\ \A h \in DOMAIN objs :
             \/ objs'[h].guests = objs[h].guests
             \/ \E c \in Conns : GuestJoinStep(c) /\ getRoomById(jwt[c].room) = h]_vars
\* the second guest has joined a registered room and stands last in its guest list
C22_Witness ==
    /\ lastOp.op = "join" /\ lastOp.result = "ok"
    /\ \E id \in DOMAIN rooms :
          LET g == objs[rooms[id]].guests
          IN Len(g) = 2 /\ g[2] = lastOp.conn /\ g[1] # g[2]
             /\ \A m \in Range(RoomPeers(Cur, rooms[id])) : getRoomByPeerId(m) = rooms[id]

\* C23: a peer is a member (host or guest) of at most one room, and stands
\* at most once in the guest list of that room.
C23_PeerInOneRoom ==
    /\ \A h1, h2 \in DOMAIN objs :
          (Range(RoomPeers(Cur, h1)) \cap Range(RoomPeers(Cur, h2)) # {}) => h1 = h2
    /\ \A h \in DOMAIN objs :
          /\ \A i, j \in DOMAIN objs[h].guests :
                (objs[h].guests[i] = objs[h].guests[j]) => i = j
          /\ h \notin GuestsOf(h)
\* two rooms are registered and one of them has a guest
C23_Witness ==
    \E x, y \in DOMAIN rooms :
        x # y /\ rooms[x] # rooms[y] /\ objs[rooms[x]].guests # <<>>


\* C24: a step that works on room A (a join with a claim for A, the close
\* of a member of A with the closeRoom(A) it may start) leaves every room
\* registered under another id as it was: its registry entry, its host and
\* guest list, the peer-registry entries of its members and their channels.
\* Steps that work on no room leave every room as it was.
StepRoom ==
    IF \E c \in Conns : JoinStep(c)
    THEN jwt[CHOOSE c \in Conns : JoinStep(c)].room
    ELSE IF lastOp'.op \in {"channelClose", "closeListener"}
    THEN LET c == lastOp'.conn
         IN IF c \in DOMAIN objs THEN objs[c].id
            ELSE IF c \in DOMAIN peers THEN objs[peers[c]].id
            ELSE 0
    ELSE 0
RoomUntouched(B) ==
    /\ B \in DOMAIN rooms' /\ rooms'[B] = rooms[B]
    /\ objs'[rooms[B]] = objs[rooms[B]]
    /\ \A m \in Range(RoomPeers(Cur, rooms[B])) :
          /\ open'[m] = open[m]
          /\ m \in DOMAIN peers => (m \in DOMAIN peers' /\ peers'[m] = peers[m])
C24_RoomsIndependent ==
    [][\A B \in DOMAIN rooms : B # StepRoom => RoomUntouched(B)]_vars
\* one room was torn down while another room with a guest is registered and
\* its host and guest are connected
C24_Witness ==
    /\ TearDown
    /\ \E B \in DOMAIN rooms :
          /\ B # lastOp.closeId /\ objs[rooms[B]].guests # <<>>
          /\ \A m \in Range(RoomPeers(Cur, rooms[B])) : open[m] /\ getRoomByPeerId(m) = rooms[B]


\* C25: closeRoom(id) on a registered room broadcasts 'room closed' to the
\* host of that room.
ClosedSent == {i \in Broadcasts : trace[i].method = "Closed"}
TornHost == lastOp.members \cap DOMAIN objs
C25_ClosedSentToHost ==
    TearDown => \E i \in ClosedSent : trace[i].to \in TornHost
\* C25, as the code has it: closeRoom(id) on a registered room broadcasts
\* 'room closed' with the host of that room as origin; it is addressed to
\* every guest of the room and not to the host.
C25_ClosedSentToGuests ==
    TearDown =>
        /\ {trace[i].to : i \in ClosedSent} = lastOp.members \ TornHost
        /\ \A i \in ClosedSent : trace[i].from \in TornHost
\* a room with two guests was torn down and 'room closed' reached a guest
\* whose channel was open
C25_Witness ==
    /\ TearDown /\ Cardinality(lastOp.members) = 3
    /\ \E i \in ClosedSent : trace[i].ok


\* C26: a successful join, host or guest, sends exactly one notification:
\* Peer.Info with the joining peer's identity, to that peer, as the last
\* thing it does, after the peer was entered in the peer registry and after
\* every 'peer joined' broadcast.
Joined == lastOp.op = "join" /\ lastOp.result = "ok"
Notifications == {i \in DOMAIN trace : trace[i].ev = "notification"}
C26_JoinEndsWithPeerInfo ==
    Joined =>
        /\ Notifications = {Len(trace)}
        /\ trace[Len(trace)].method = "Info"
        /\ trace[Len(trace)].to = lastOp.conn /\ trace[Len(trace)].from = lastOp.conn
        /\ \E j \in 1..(Len(trace) - 1) :
              trace[j].ev = "peers.set" /\ trace[j].from = lastOp.conn
        /\ \A j \in Broadcasts : j < Len(trace)
\* the second guest of a room has joined: two 'peer joined' went out before its Peer.Info
C26_Witness ==
    /\ Joined /\ lastOp.conn \notin DOMAIN objs
    /\ Cardinality(Broadcasts) = 2 /\ Notifications # {}


\* C27: a connection that presents a token and names an unknown encoding
\* fails with UnsupportedEncoding: it ends failed and closed, before
\* verification, with no registry changed; a connection that presents a token
\* and names no encoding is taken with the default encoding and goes on to
\* the verification of its token.
C27_UnknownEncodingRejected ==
    [][lastOp'.op = "connect" =>
          /\ lastOp'.case = "badenc" =>
                /\ lastOp'.result = "UnsupportedEncoding"
                /\ phase'[lastOp'.conn] = "failed" /\ ~open'[lastOp'.conn]
                /\ rooms' = rooms /\ peers' = peers /\ objs' = objs
                /\ trace' = <<>>
          /\ lastOp'.case = "noenc" =>
                /\ lastOp'.result = "await"
                /\ phase'[lastOp'.conn] = "verifying" /\ open'[lastOp'.conn]]_vars
\* after a claim had been issued, a connection with a token and an unknown
\* encoding was refused
C27_Witness ==
    /\ lastOp.op = "connect" /\ lastOp.case = "badenc"
    /\ lastOp.result = "UnsupportedEncoding"
    /\ issued # {} /\ phase[lastOp.conn] = "failed"


\* C28: in a successful guest join 'peer joined' is broadcast after the guest
\* was entered in the peer registry and in the guest list; its origin is the
\* guest and it is addressed to every other member of the room (the host and
\* every earlier guest), not to the guest.
GuestJoined == Joined /\ lastOp.conn \notin DOMAIN objs
JoinedSent == {i \in Broadcasts : trace[i].method = "Joined"}
C28_JoinedBroadcastAfterRegistration ==
    GuestJoined =>
        LET c == lastOp.conn
        IN /\ JoinedSent = Broadcasts
           /\ {trace[i].to : i \in JoinedSent} = Range(RoomPeers(Cur, peers[c])) \ {c}
           /\ \A i \in JoinedSent : trace[i].from = c
           /\ \E j, k \in DOMAIN trace :
                 /\ trace[j].ev = "peers.set" /\ trace[j].from = c
                 /\ trace[k].ev = "guests.push" /\ trace[k].from = c
                 /\ \A i \in JoinedSent : j < i /\ k < i
\* the second guest has joined: 'peer joined' went to the host and to the first guest
C28_Witness ==
    /\ GuestJoined
    /\ \E h \in DOMAIN objs :
          /\ Len(objs[h].guests) = 2 /\ objs[h].guests[2] = lastOp.conn
          /\ {trace[i].to : i \in JoinedSent} = {h, objs[h].guests[1]}


\* C29: within closeRoom every guest's 'room closed' is issued before the
\* first channel is closed and before the first peer is removed from the
\* peer registry; closeRoom sends no request and goes on to the end (the
\* removal of the room) in the same handler, waiting for nothing.
\* closeRoom starts after the `listener` event of the host that called it
CloseRoomStart == CHOOSE k \in DOMAIN trace :
                     trace[k].ev = "listener" /\ \A j \in 1..(k - 1) : trace[j].ev # "listener"
Removals == {j \in DOMAIN trace :
                j > CloseRoomStart /\ trace[j].ev \in {"close", "peers.delete"}}
C29_ClosedBroadcastFirst ==
    TearDown =>
        /\ \A g \in lastOp.members \ TornHost :
              \E i \in ClosedSent :
                  /\ trace[i].to = g /\ i > CloseRoomStart
                  /\ \A j \in Removals : i < j
        /\ \A i \in DOMAIN trace : trace[i].ev # "request"
        /\ trace[Len(trace)].ev = "rooms.delete"
        /\ \A m \in lastOp.members : \E j \in Removals : trace[j].ev = "peers.delete" /\ trace[j].to = m
\* a room with a guest was torn down: the guest's channel was open when
\* 'room closed' was handed to it and is closed at the end of the handler
C29_Witness ==
    /\ TearDown
    /\ \E i \in ClosedSent : trace[i].ok /\ ~open[trace[i].to]
    /\ \E j \in Removals : trace[j].ev = "close"


\* C30: the close listener of a host tears down only the room that this
\* host's join created: whenever a host's listener finds a room to close,
\* that room's host is the peer whose listener ran.
C30_HostClosesOwnRoomOnly ==
    TearDown => TornHost = {lastOp.conn}


\* C31: the peer registry has no dangling entries: every room that is a
\* value of the peer registry is the room registered in the room registry
\* under its own id.
C31_NoDanglingPeers ==
    \A p \in DOMAIN peers : getRoomById(objs[peers[p]].id) = peers[p]


\* C32: 'room closed' is sent to a peer at most once: no handler sends it to
\* one peer twice, also when closeRoom closes a host's channel and that
\* host's listener calls closeRoom for the same id while the first call is
\* running; and a peer it is sent to is a registered peer that the same
\* handler removes from the peer registry, so that no later teardown can
\* address it again.
ClosedSentNext == {i \in DOMAIN trace' :
                     trace'[i].ev = "broadcast" /\ trace'[i].method = "Closed"}
C32_ClosedSentOnce ==
    [][\A i \in ClosedSentNext :
          /\ \A j \in ClosedSentNext : trace'[j].to = trace'[i].to => j = i
          /\ trace'[i].to \in DOMAIN peers /\ phase[trace'[i].to] = "joined"
          /\ trace'[i].to \notin DOMAIN peers']_vars
\* closeRoom closed the channel of the host of a room with a guest, and that
\* host's listener ran closeRoom inside the first call
Reentered == {k \in DOMAIN trace :
                 /\ k > CloseRoomStart /\ trace[k].ev = "listener"
                 /\ trace[k].to \in TornHost}
C32_Witness ==
    /\ TearDown /\ Reentered # {}
    /\ ClosedSent # {}
    /\ \A k \in Reentered : \E i \in ClosedSent : i < k


====
